---- MODULE Spec2Model ----
(***************************************************************************)
(* Model of scripts/vendor_bird.py: download the upstream `bird` release   *)
(* assets, pick one per target, extract it into a scratch directory,       *)
(* locate the binary and stage it at bundled/bird/bird_<os>_<arch>[.exe].  *)
(*                                                                         *)
(* Names are TLA+ strings handled character by character (Len, SubSeq and  *)
(* \o work on strings in TLC), so substring tests, suffix tests, lower()   *)
(* and path resolution are computed, not assumed.                          *)
(***************************************************************************)
EXTENDS Integers, Sequences, FiniteSets, TLC

VARIABLES
    environ,    \* os.environ: set of <<key, value>> pairs
    assets,     \* rel.get("assets") or []: the release's asset list
    pc,         \* position in main()
    i,          \* index of the current target in `targets`
    asset,      \* Optional result of _pick_asset: <<>> (None) or <<a>>
    payload,    \* the downloaded archive: sequence of members
    td,         \* set of existing scratch directories (absolute paths)
    tree,       \* entries below the scratch directory after extraction
    outside,    \* absolute paths of files written outside the scratch dir
    bird_path,  \* Optional result of _find_bird_binary: <<>> or <<entry>>
    staged,     \* files under bundled/bird: set of [dst, src, exec]
    stderr,     \* diagnostic lines printed so far
    exitCode,   \* process exit status once pc = "exited"
    raised      \* "" or the exception that ended the run

vars == <<environ, assets, pc, i, asset, payload, td, tree, outside,
          bird_path, staged, stderr, exitCode, raised>>

-----------------------------------------------------------------------------
(* Bounds of the model *)

MaxAssets == 3

MaxMembers == 2

-----------------------------------------------------------------------------
(* str methods *)

UpperAlpha == "ABCDEFGHIJKLMNOPQRSTUVWXYZ"
LowerAlpha == "abcdefghijklmnopqrstuvwxyz"

Char(s, k) == SubSeq(s, k, k)

UpperChars == { Char(UpperAlpha, k) : k \in 1..Len(UpperAlpha) }

LowerTable ==
    [c \in UpperChars |->
        Char(LowerAlpha, CHOOSE k \in 1..Len(UpperAlpha) : Char(UpperAlpha, k) = c)]

LowerChar(c) == IF c \in UpperChars THEN LowerTable[c] ELSE c

RECURSIVE Lower(_)
Lower(s) ==
    IF Len(s) = 0 THEN ""
    ELSE LowerChar(Char(s, 1)) \o Lower(SubSeq(s, 2, Len(s)))

\* t in s
Contains(s, t) ==
    \E k \in 1..(Len(s) - Len(t) + 1) : SubSeq(s, k, k + Len(t) - 1) = t

StartsWith(s, t) == Len(s) >= Len(t) /\ SubSeq(s, 1, Len(t)) = t

EndsWith(s, t) == Len(s) >= Len(t) /\ SubSeq(s, Len(s) - Len(t) + 1, Len(s)) = t

RECURSIVE Strip(_)
Strip(s) ==
    IF Len(s) = 0 THEN s
    ELSE IF Char(s, 1) = " " THEN Strip(SubSeq(s, 2, Len(s)))
    ELSE IF Char(s, Len(s)) = " " THEN Strip(SubSeq(s, 1, Len(s) - 1))
    ELSE s

\* dict.get(key) or ""  /  dict.get(key) or 0 on a JSON object
GetStr(d, k) == IF k \in DOMAIN d THEN d[k] ELSE ""
GetInt(d, k) == IF k \in DOMAIN d THEN d[k] ELSE 0

\* os.environ.get(key, default)
EnvGet(e, k, default) ==
    IF \E p \in e : p[1] = k THEN (CHOOSE p \in e : p[1] = k)[2] ELSE default

-----------------------------------------------------------------------------
(* _token_match and _pick_asset *)

OsTokens(goos) ==
    CASE goos = "darwin"  -> {"darwin", "macos", "mac", "osx"}
      [] goos = "linux"   -> {"linux"}
      [] goos = "windows" -> {"windows", "win"}

ArchTokens(goarch) ==
    CASE goarch = "amd64" -> {"amd64", "x86_64", "x64"}
      [] goarch = "arm64" -> {"arm64", "aarch64"}

ExcludedSuffixes == {".sha256", ".sha256sum", ".sig", ".asc", ".txt", ".json"}

_token_match(name, tokens) ==
    LET n == Lower(name) IN \E t \in tokens : Contains(n, t)

\* mutant of IsMatch: the architecture test is lost
IsMatchOsOnly(a, goos, goarch) ==
    LET name  == GetStr(a, "name")
        lower == Lower(name)
    IN
    /\ ~ \E suf \in ExcludedSuffixes : EndsWith(lower, suf)
    /\ _token_match(name, OsTokens(goos))

\* lines 74-78: the filter of the loop over the assets
IsMatch(a, goos, goarch) ==
    LET name  == GetStr(a, "name")
        lower == Lower(name)
    IN
    /\ ~ \E suf \in ExcludedSuffixes : EndsWith(lower, suf)
    /\ _token_match(name, OsTokens(goos))
    /\ _token_match(name, ArchTokens(goarch))

\* mutant of fmtRank: the ranks of the two archive formats are swapped
fmtRankZipFirst(name) ==
    IF EndsWith(name, ".tar.gz") \/ EndsWith(name, ".tgz") THEN 1
    ELSE IF EndsWith(name, ".zip") THEN 0
    ELSE 2

fmtRank(name) ==
    IF EndsWith(name, ".tar.gz") \/ EndsWith(name, ".tgz") THEN 0
    ELSE IF EndsWith(name, ".zip") THEN 1
    ELSE 2

score(a) == <<fmtRank(Lower(GetStr(a, "name"))), GetInt(a, "size")>>

\* tuple comparison x < y of two scores
ScoreLess(x, y) == x[1] < y[1] \/ (x[1] = y[1] /\ x[2] < y[2])

\* insert a behind every element whose key is not greater (stable)
RECURSIVE InsertByScore(_, _)
InsertByScore(s, a) ==
    IF s = <<>> THEN <<a>>
    ELSE IF ScoreLess(score(a), score(Head(s))) THEN <<a>> \o s
    ELSE <<Head(s)>> \o InsertByScore(Tail(s), a)

\* sorted(matches, key=score): a stable sort
RECURSIVE SortedByScore(_)
SortedByScore(s) ==
    IF s = <<>> THEN <<>>
    ELSE InsertByScore(SortedByScore(SubSeq(s, 1, Len(s) - 1)), s[Len(s)])

Matches(as, goos, goarch) == SelectSeq(as, LAMBDA a : IsMatch(a, goos, goarch))

\* Optional[dict]: <<>> is None
_pick_asset(as, goos, goarch) ==
    LET matches == Matches(as, goos, goarch) IN
    IF matches = <<>> THEN <<>> ELSE <<SortedByScore(matches)[1]>>

-----------------------------------------------------------------------------
(* main: configuration and targets *)

require_windows(e) == Strip(EnvGet(e, "BIRDY_BUNDLE_WINDOWS", "1")) = "1"

targets(e) ==
    << [goos |-> "darwin",  goarch |-> "amd64", required |-> TRUE],
       [goos |-> "darwin",  goarch |-> "arm64", required |-> TRUE],
       [goos |-> "linux",   goarch |-> "amd64", required |-> TRUE],
       [goos |-> "linux",   goarch |-> "arm64", required |-> TRUE],
       [goos |-> "windows", goarch |-> "amd64", required |-> require_windows(e)],
       [goos |-> "windows", goarch |-> "arm64", required |-> require_windows(e)] >>

NTargets == Len(targets({}))

-----------------------------------------------------------------------------
(* pathlib: paths are strings; "/" is the separator *)

\* s.split(sep) for a one-character sep
RECURSIVE SplitFrom(_, _, _)
SplitFrom(s, sep, cur) ==
    IF Len(s) = 0 THEN <<cur>>
    ELSE IF Char(s, 1) = sep
         THEN <<cur>> \o SplitFrom(SubSeq(s, 2, Len(s)), sep, "")
         ELSE SplitFrom(SubSeq(s, 2, Len(s)), sep, cur \o Char(s, 1))

Split(s, sep) == SplitFrom(s, sep, "")

\* "/".join(parts)
RECURSIVE JoinParts(_)
JoinParts(parts) ==
    IF parts = <<>> THEN ""
    ELSE IF Len(parts) = 1 THEN parts[1]
    ELSE parts[1] \o "/" \o JoinParts(Tail(parts))

\* out_dir / name: an absolute right operand replaces the left one
PathJoin(dir, name) == IF StartsWith(name, "/") THEN name ELSE dir \o "/" \o name

\* fold the components of an absolute path: "" and "." vanish, ".." pops
RECURSIVE Normalize(_, _)
Normalize(parts, acc) ==
    IF parts = <<>> THEN acc
    ELSE LET c == Head(parts) IN
         IF c = "" \/ c = "." THEN Normalize(Tail(parts), acc)
         ELSE IF c = ".."
              THEN Normalize(Tail(parts),
                             IF acc = <<>> THEN acc ELSE SubSeq(acc, 1, Len(acc) - 1))
              ELSE Normalize(Tail(parts), Append(acc, c))

\* Path.resolve() of an absolute path in a tree without symlinks
Resolve(path) == "/" \o JoinParts(Normalize(Split(path, "/"), <<>>))

\* Path.name
BaseName(path) == LET parts == Split(path, "/") IN parts[Len(parts)]

\* p is out_dir or lies below it (component-wise)
IsWithin(p, dir) == p = dir \/ StartsWith(p, dir \o "/")

\* the path of p relative to dir, for p below dir
RelativeTo(p, dir) == SubSeq(p, Len(dir) + 2, Len(p))

-----------------------------------------------------------------------------
(* _extract_to_dir                                                         *)
(* A payload is [wellformed, members]; a member is [name, exec] and names  *)
(* a regular file.  The result is what the call leaves behind:             *)
(*   status  "ok" | "unsafe" (the guard raised) | "error" (library raised) *)
(*   tree    entries [path, kind, exec] created below out_dir              *)
(*   outside absolute paths of files created outside out_dir               *)

\* the guard of lines 107-108 / 116-117: TRUE when the member is rejected
GuardRejects(out_dir, name) ==
    ~ StartsWith(Resolve(PathJoin(out_dir, name)), Resolve(out_dir))

\* directory entries for the parents of a relative path
ParentDirs(rel) ==
    LET parts == Split(rel, "/") IN
    { [path |-> JoinParts(SubSeq(parts, 1, k)), kind |-> "dir", exec |-> TRUE] :
        k \in 1..(Len(parts) - 1) }

\* create (or overwrite) the regular file rel below out_dir
WriteFile(t, rel, exec) ==
    { e \in t : e.path # rel } \cup ParentDirs(rel)
        \cup { [path |-> rel, kind |-> "file", exec |-> exec] }

\* tarfile.extractall(out_dir).  The extraction filter is the interpreter's
\* default: "fully_trusted" (members are written where their names resolve)
\* or "data" (a member resolving outside out_dir raises a FilterError after
\* the members before it have been written).
RECURSIVE TarExtractAll(_, _, _, _)
TarExtractAll(members, out_dir, filter, acc) ==
    IF members = <<>> THEN acc
    ELSE LET m    == Head(members)
             dest == Resolve(PathJoin(out_dir, m.name))
         IN IF IsWithin(dest, out_dir) /\ dest # out_dir
            THEN TarExtractAll(Tail(members), out_dir, filter,
                    [acc EXCEPT !.tree = WriteFile(@, RelativeTo(dest, out_dir), m.exec)])
            ELSE IF filter = "data"
            THEN [acc EXCEPT !.status = "error",
                             !.error = "tarfile.OutsideDestinationError"]
            ELSE TarExtractAll(Tail(members), out_dir, filter,
                    [acc EXCEPT !.outside = @ \cup {dest}])

\* zipfile._extract_member: drive, leading separators, "", "." and ".."
\* components are dropped from the entry name before it is joined
ZipSanitize(name) ==
    JoinParts(SelectSeq(Split(name, "/"), LAMBDA c : c \notin {"", ".", ".."}))

\* zipfile.extractall(out_dir): permission bits are not restored
RECURSIVE ZipExtractAll(_, _, _)
ZipExtractAll(names, out_dir, acc) ==
    IF names = <<>> THEN acc
    ELSE LET rel == ZipSanitize(Head(names).name) IN
         ZipExtractAll(Tail(names), out_dir,
            IF rel = "" THEN acc
            ELSE [acc EXCEPT !.tree = WriteFile(@, rel, FALSE)])

NothingWritten == [status |-> "ok", error |-> "", tree |-> {}, outside |-> {}]

Raise(kind, msg) == [NothingWritten EXCEPT !.status = kind, !.error = msg]

\* the first member the guard rejects, in archive order
FirstRejected(members, out_dir) ==
    members[CHOOSE k \in 1..Len(members) :
                /\ GuardRejects(out_dir, members[k].name)
                /\ \A j \in 1..(k - 1) : ~ GuardRejects(out_dir, members[j].name)]

_extract_to_dir(p, asset_name, out_dir, filter) ==
    LET name   == Lower(asset_name)
        unsafe == \E k \in 1..Len(p.members) : GuardRejects(out_dir, p.members[k].name)
    IN
    IF EndsWith(name, ".tar.gz") \/ EndsWith(name, ".tgz")
    THEN IF ~ p.wellformed THEN Raise("error", "tarfile.ReadError")
         ELSE IF unsafe
         THEN Raise("unsafe", "RuntimeError: unsafe tar member path: "
                                \o FirstRejected(p.members, out_dir).name)
         ELSE TarExtractAll(p.members, out_dir, filter, NothingWritten)
    ELSE IF EndsWith(name, ".zip")
    THEN IF ~ p.wellformed THEN Raise("error", "zipfile.BadZipFile")
         ELSE IF unsafe
         THEN Raise("unsafe", "RuntimeError: unsafe zip member path: "
                                \o FirstRejected(p.members, out_dir).name)
         ELSE ZipExtractAll(p.members, out_dir, NothingWritten)
    ELSE [NothingWritten EXCEPT !.tree = WriteFile({}, "bird", FALSE)]

-----------------------------------------------------------------------------
(* _find_bird_binary                                                       *)
(* root.rglob("*") yields the entries in directory order, which the file   *)
(* system decides: "the first match" is any match.  The result is the set  *)
(* of values the call can return, each an Optional: <<>> or <<entry>>.     *)

RegularFiles(t) == { e \in t : e.kind = "file" }

\* mutant of _find_bird_binary: the executable-bit fallback on every platform
_find_any_platform(t, want_windows) ==
    LET preferred == IF want_windows THEN {"bird.exe"} ELSE {"bird"}
        files     == RegularFiles(t)
        exact     == { e \in files : BaseName(e.path) \in preferred }
        looksExec == { e \in files :
                         e.exec /\ StartsWith(Lower(BaseName(e.path)), "bird") }
    IN
    IF exact # {} THEN { <<e>> : e \in exact }
    ELSE IF Cardinality(files) = 1 THEN { <<e>> : e \in files }
    ELSE IF looksExec # {} THEN { <<e>> : e \in looksExec }
    ELSE { <<>> }

_find_bird_binary(t, want_windows) ==
    LET preferred == IF want_windows THEN {"bird.exe"} ELSE {"bird"}
        files     == RegularFiles(t)
        exact     == { e \in files : BaseName(e.path) \in preferred }
        looksExec == { e \in files :
                         e.exec /\ StartsWith(Lower(BaseName(e.path)), "bird") }
    IN
    IF exact # {} THEN { <<e>> : e \in exact }
    ELSE IF Cardinality(files) = 1 THEN { <<e>> : e \in files }
    ELSE IF ~ want_windows /\ looksExec # {} THEN { <<e>> : e \in looksExec }
    ELSE { <<>> }

-----------------------------------------------------------------------------
(* Inputs of the selection check: asset records as the release API gives   *)
(* them (any key may be missing)                                           *)

PickCatalog ==
    { [name |-> "bird_darwin_amd64.tar.gz", size |-> 9, browser_download_url |-> "u"],
      [name |-> "bird_darwin_amd64.zip",    browser_download_url |-> "u"],
      [name |-> "bird-macos-x64.tgz",       size |-> 3, browser_download_url |-> "u"],
      [name |-> "Bird_Windows_X64.ZIP",     size |-> 3],
      [name |-> "bird_linux_aarch64",       size |-> 1, browser_download_url |-> "u"],
      [name |-> "bird_linux_arm64.tar.gz.sha256", size |-> 1, browser_download_url |-> "u"],
      [name |-> "bird_linux.tar.gz",        size |-> 1, browser_download_url |-> "u"],
      [name |-> "bird_amd64.zip",           size |-> 1, browser_download_url |-> "u"] }

SeqsUpTo(S, n) == UNION { [1..k -> S] : k \in 0..n }

-----------------------------------------------------------------------------
(* Inputs of the extraction and locator checks *)

\* tempfile.TemporaryDirectory() picks a fresh random name below /tmp
ScratchDirs == {"/tmp/tmpa", "/tmp/tmpab"}

TarFilters == {"fully_trusted", "data"}

MemberCatalog ==
    { [name |-> "bird",          exec |-> TRUE],
      [name |-> "bird.exe",      exec |-> FALSE],
      [name |-> "payload.bin",   exec |-> FALSE],
      [name |-> "bin/Birdy",     exec |-> TRUE],
      [name |-> "birdwatch.md",  exec |-> FALSE],
      [name |-> "install.sh",    exec |-> TRUE],
      [name |-> "../../evil",    exec |-> FALSE],
      [name |-> "/etc/evil",     exec |-> FALSE],
      [name |-> "../tmpab/evil", exec |-> FALSE] }

Corrupt == [wellformed |-> FALSE, members |-> <<>>]

Archive(ms) == [wellformed |-> TRUE, members |-> ms]

ArchiveNames == {"bird.tar.gz", "Bird.TGZ", "bird.zip", "bird"}

\* mutant of RemoveScratch: the directory is left behind
LeakScratch(dirs) == dirs

\* TemporaryDirectory.__exit__: the with block's directory is removed
RemoveScratch(dirs) == {}

InitPick ==
    /\ assets \in SeqsUpTo(PickCatalog, MaxAssets)
    /\ pc = "pick"
    /\ asset = <<>>
    /\ payload = Archive(<<>>)
    /\ environ = {}
    /\ td = {}
    /\ tree = {}
    /\ outside = {}
    /\ bird_path = <<>>
    /\ staged = {}
    /\ stderr = <<>>
    /\ exitCode = 0
    /\ raised = ""
    /\ i = 1

\* one call _pick_asset(assets, goos, goarch)
PickCall ==
    /\ pc = "pick"
    /\ \E t \in 1..NTargets :
          /\ i' = t
          /\ asset' = _pick_asset(assets, targets(environ)[t].goos, targets(environ)[t].goarch)
    /\ pc' = "picked"
    /\ UNCHANGED <<environ, assets, payload, td, tree, outside, bird_path,
                   staged, stderr, exitCode, raised>>

NextPick == PickCall

SpecPick == InitPick /\ [][NextPick]_vars

-----------------------------------------------------------------------------
(* Calls of _extract_to_dir and _find_bird_binary on bounded archives *)

InitExtract ==
    /\ payload \in { Archive(ms) : ms \in SeqsUpTo(MemberCatalog, MaxMembers) }
                      \cup {Corrupt}
    /\ asset \in { <<[name |-> n, browser_download_url |-> "u"]>> : n \in ArchiveNames }
    /\ pc = "extract"
    /\ environ = {}
    /\ assets = <<>>
    /\ i = 1
    /\ td = {}
    /\ tree = {}
    /\ outside = {}
    /\ bird_path = <<>>
    /\ staged = {}
    /\ stderr = <<>>
    /\ exitCode = 0
    /\ raised = ""

\* tmp = a fresh scratch directory; _extract_to_dir(payload, name, tmp)
ExtractCall ==
    /\ pc = "extract"
    /\ \E d \in ScratchDirs, f \in TarFilters :
          LET r == _extract_to_dir(payload, asset[1].name, d, f) IN
          /\ td' = {d}
          /\ tree' = r.tree
          /\ outside' = r.outside
          /\ raised' = r.error
    /\ pc' = "extracted"
    /\ UNCHANGED <<environ, assets, i, asset, payload, bird_path, staged,
                   stderr, exitCode>>

\* _find_bird_binary(tmp, want_windows) for the target i
FindCall ==
    /\ pc = "extracted"
    /\ raised = ""
    /\ \E t \in 1..NTargets :
          /\ i' = t
          /\ bird_path' \in _find_bird_binary(tree, targets(environ)[t].goos = "windows")
    /\ pc' = "found"
    /\ UNCHANGED <<environ, assets, asset, payload, td, tree, outside, staged,
                   stderr, exitCode, raised>>

NextExtract == ExtractCall \/ FindCall

SpecExtract == InitExtract /\ [][NextExtract]_vars

-----------------------------------------------------------------------------
(* main                                                                    *)
(* The release host's answer, the environment and the downloaded bytes are *)
(* the inputs.  An uncaught exception ends the interpreter with status 1.  *)

MainCatalog ==
    << [name |-> "bird_darwin_amd64.tar.gz", size |-> 9, browser_download_url |-> "u1"],
       [name |-> "bird-macos-x64.zip",       size |-> 3, browser_download_url |-> "u2"],
       [name |-> "bird-macos-arm64.tgz",     size |-> 9, browser_download_url |-> "u3"],
       [name |-> "bird_linux_amd64.tar.gz",  size |-> 9, browser_download_url |-> "u4"],
       [name |-> "bird_linux_arm64",         size |-> 9, browser_download_url |-> "u5"],
       [name |-> "bird_windows_amd64.zip",   size |-> 9, browser_download_url |-> "u6"],
       [name |-> "bird_windows_arm64.zip",   size |-> 9, browser_download_url |-> "u7"],
       [name |-> "bird_linux_arm64.tgz",     size |-> 9] >>

\* the sub-list of MainCatalog at the positions in S, in catalog order
RECURSIVE SubList(_, _)
SubList(k, S) ==
    IF k > Len(MainCatalog) THEN <<>>
    ELSE (IF k \in S THEN <<MainCatalog[k]>> ELSE <<>>) \o SubList(k + 1, S)

Releases == { SubList(1, S) : S \in SUBSET (1..Len(MainCatalog)) }

Environs ==
    { {} } \cup { {<<"BIRDY_BUNDLE_WINDOWS", v>>} : v \in {"1", "0"} }

MainPayloads ==
    { Archive(<<[name |-> "bird", exec |-> TRUE]>>),
      Archive(<<[name |-> "birdwatch.md", exec |-> FALSE],
                [name |-> "bin/Birdy", exec |-> TRUE]>>),
      Archive(<<[name |-> "../../evil", exec |-> FALSE]>>),
      Archive(<<[name |-> "bird", exec |-> TRUE],
                [name |-> "../tmpab/evil", exec |-> FALSE]>>),
      Corrupt }

Init ==
    /\ environ \in Environs
    /\ assets \in Releases
    /\ pc = "start"
    /\ i = 1
    /\ asset = <<>>
    /\ payload = Archive(<<>>)
    /\ td = {}
    /\ tree = {}
    /\ outside = {}
    /\ bird_path = <<>>
    /\ staged = {}
    /\ stderr = <<>>
    /\ exitCode = 0
    /\ raised = ""

Target == targets(environ)[i]

TargetName == Target.goos \o "/" \o Target.goarch

\* mutant of Return1: the diagnostic is printed and 0 is returned
Return1AsZero(line) ==
    /\ stderr' = Append(stderr, line)
    /\ exitCode' = 0
    /\ pc' = "exited"
    /\ UNCHANGED raised

\* print(line, file=sys.stderr); return 1
Return1(line) ==
    /\ stderr' = Append(stderr, line)
    /\ exitCode' = 1
    /\ pc' = "exited"
    /\ UNCHANGED raised

\* an exception nobody catches: traceback, exit status 1
Uncaught(exc) ==
    /\ raised' = exc
    /\ exitCode' = 1
    /\ pc' = "exited"
    /\ UNCHANGED stderr

\* mutant of MissIsFatal: every miss is skipped
MissNeverFatal(t) == FALSE

\* lines 190 and 212: `if required:`
MissIsFatal(t) == t.required

\* lines 160-184: configuration, _http_json, the empty-release test
FetchRelease ==
    /\ pc = "start"
    /\ \/ /\ assets = <<>>
          /\ Return1("vendor_bird: no assets found in upstream release")
          /\ UNCHANGED i
       \/ /\ assets # <<>>
          /\ pc' = "select"
          /\ i' = 1
          /\ UNCHANGED <<stderr, exitCode, raised>>
    /\ UNCHANGED <<environ, assets, asset, payload, td, tree, outside,
                   bird_path, staged>>

\* _http_json raises (transport error, status, malformed JSON)
FetchReleaseFails ==
    /\ pc = "start"
    /\ Uncaught("urllib.error.URLError")
    /\ UNCHANGED <<environ, assets, i, asset, payload, td, tree, outside,
                   bird_path, staged>>

\* lines 186-202: _pick_asset for the next target and the record test
Select ==
    /\ pc = "select"
    /\ i <= NTargets
    /\ LET a == _pick_asset(assets, Target.goos, Target.goarch) IN
       /\ asset' = a
       /\ IF a = <<>>
          THEN IF MissIsFatal(Target)
               THEN /\ Return1("vendor_bird: no matching asset for " \o TargetName)
                    /\ UNCHANGED i
               ELSE /\ stderr' = Append(stderr, "vendor_bird: no matching asset for "
                                                    \o TargetName \o " (skipping)")
                    /\ i' = i + 1
                    /\ UNCHANGED <<pc, exitCode, raised>>
          ELSE IF GetStr(a[1], "browser_download_url") = "" \/ GetStr(a[1], "name") = ""
               THEN /\ Return1("vendor_bird: invalid asset for " \o TargetName)
                    /\ UNCHANGED i
               ELSE /\ stderr' = Append(stderr, "vendor_bird: downloading "
                                  \o GetStr(a[1], "name") \o " for " \o TargetName)
                    /\ pc' = "download"
                    /\ UNCHANGED <<i, exitCode, raised>>
    /\ UNCHANGED <<environ, assets, payload, td, tree, outside, bird_path, staged>>

\* line 203: _download returns the asset's bytes
Download ==
    /\ pc = "download"
    /\ payload' \in MainPayloads
    /\ pc' = "extract"
    /\ UNCHANGED <<environ, assets, i, asset, td, tree, outside, bird_path,
                   staged, stderr, exitCode, raised>>

\* line 203: _download raises
DownloadFails ==
    /\ pc = "download"
    /\ Uncaught("urllib.error.URLError")
    /\ UNCHANGED <<environ, assets, i, asset, payload, td, tree, outside,
                   bird_path, staged>>

\* lines 205-207: enter the with block and extract; an exception leaves
\* the block, which removes the scratch directory
Extract ==
    /\ pc = "extract"
    /\ \E d \in ScratchDirs, f \in TarFilters :
          LET r == _extract_to_dir(payload, GetStr(asset[1], "name"), d, f) IN
          /\ outside' = outside \cup r.outside
          /\ IF r.status = "ok"
             THEN /\ td' = td \cup {d}
                  /\ tree' = r.tree
                  /\ pc' = "locate"
                  /\ UNCHANGED <<stderr, exitCode, raised>>
             ELSE /\ td' = RemoveScratch(td \cup {d})
                  /\ tree' = {}
                  /\ Uncaught(r.error)
    /\ UNCHANGED <<environ, assets, i, asset, payload, bird_path, staged>>

\* lines 208-216: locate the binary; not found leaves the with block.
\* `continue` drops the iteration's locals (payload, bird_path), which the
\* next iteration assigns before it reads them.
Locate ==
    /\ pc = "locate"
    /\ \E b \in _find_bird_binary(tree, Target.goos = "windows") :
          IF b = <<>>
          THEN /\ td' = RemoveScratch(td)
               /\ tree' = {}
               /\ bird_path' = <<>>
               /\ IF MissIsFatal(Target)
                  THEN /\ Return1("vendor_bird: could not locate bird binary after extracting "
                                     \o GetStr(asset[1], "name"))
                       /\ UNCHANGED <<i, payload>>
                  ELSE /\ stderr' = Append(stderr,
                             "vendor_bird: could not locate bird binary after extracting "
                                 \o GetStr(asset[1], "name") \o " (skipping)")
                       /\ i' = i + 1
                       /\ pc' = "select"
                       /\ payload' = Archive(<<>>)
                       /\ UNCHANGED <<exitCode, raised>>
          ELSE /\ bird_path' = b
               /\ pc' = "stage"
               /\ UNCHANGED <<i, payload, td, tree, stderr, exitCode, raised>>
    /\ UNCHANGED <<environ, assets, asset, outside, staged>>

\* bundled/bird/bird_<os>_<arch>[.exe]
StagedPath(t) ==
    "bundled/bird/bird_" \o t.goos \o "_" \o t.goarch
        \o (IF t.goos = "windows" THEN ".exe" ELSE "")

\* mode | S_IXUSR | S_IXGRP | S_IXOTH: the owner-execute bit of the copy.
\* chmod on the file the run has just created does not fail.
_ensure_executable(exec) == exec \/ TRUE

\* lines 218-220 and the end of the with block: copy2, chmod +x, cleanup;
\* the iteration's locals are dropped as in Locate
Stage ==
    /\ pc = "stage"
    /\ staged' = { f \in staged : f.dst # StagedPath(Target) }
                    \cup { [dst  |-> StagedPath(Target),
                            src  |-> GetStr(asset[1], "name"),
                            exec |-> _ensure_executable(bird_path[1].exec)] }
    /\ td' = RemoveScratch(td)
    /\ tree' = {}
    /\ payload' = Archive(<<>>)
    /\ bird_path' = <<>>
    /\ i' = i + 1
    /\ pc' = "select"
    /\ UNCHANGED <<environ, assets, asset, outside, stderr, exitCode, raised>>

\* line 222: the loop is over
Return0 ==
    /\ pc = "select"
    /\ i > NTargets
    /\ exitCode' = 0
    /\ pc' = "exited"
    /\ UNCHANGED <<environ, assets, i, asset, payload, td, tree, outside,
                   bird_path, staged, stderr, raised>>

Next ==
    \/ FetchRelease
    \/ FetchReleaseFails
    \/ Select
    \/ Download
    \/ DownloadFails
    \/ Extract
    \/ Locate
    \/ Stage
    \/ Return0

Spec == Init /\ [][Next]_vars

-----------------------------------------------------------------------------
(* Properties of _pick_asset, checked under SpecPick *)

PickedTarget == targets(environ)[i]

\* the assets of the list that match the picked target
Candidates ==
    { assets[k] : k \in { j \in 1..Len(assets) :
                            IsMatch(assets[j], PickedTarget.goos, PickedTarget.goarch) } }

\* C5: among the assets that match the target, the asset _pick_asset returns
\* is minimal for (formatRank, size), formatRank being 0 for .tar.gz/.tgz,
\* 1 for .zip and 2 otherwise, and a missing size counting as 0; so a
\* matching .tar.gz is preferred to every matching .zip whatever the sizes
C5_PickIsMinimalByFormatThenSize ==
    (pc = "picked" /\ Candidates # {}) =>
        LET lname(x) == Lower(IF "name" \in DOMAIN x THEN x.name ELSE "")
            isTar(x) == EndsWith(lname(x), ".tar.gz") \/ EndsWith(lname(x), ".tgz")
            isZip(x) == EndsWith(lname(x), ".zip")
            rank(x)  == IF isTar(x) THEN 0 ELSE IF isZip(x) THEN 1 ELSE 2
            size(x)  == IF "size" \in DOMAIN x THEN x.size ELSE 0
        IN
        /\ asset # <<>>
        /\ asset[1] \in Candidates
        /\ \A m \in Candidates :
              \/ rank(asset[1]) < rank(m)
              \/ rank(asset[1]) = rank(m) /\ size(asset[1]) <= size(m)
        /\ (\E m \in Candidates : isTar(m)) => isTar(asset[1])

\* C5 witness: a .tar.gz was returned although a matching .zip is smaller
C5_Witness ==
    /\ pc = "picked"
    /\ asset # <<>>
    /\ EndsWith(Lower(asset[1].name), ".tar.gz")
    /\ \E m \in Candidates :
          /\ EndsWith(Lower(m.name), ".zip")
          /\ GetInt(m, "size") < GetInt(asset[1], "size")

\* C6: an asset returned by _pick_asset has a lowercased name that contains
\* an OS-alias token and an architecture-alias token of the target and does
\* not end in an excluded suffix; none is returned exactly when no asset of
\* the list satisfies these conditions
C6_PickMatchesOsAndArch ==
    pc = "picked" =>
        LET lname(x) == Lower(IF "name" \in DOMAIN x THEN x.name ELSE "")
            sat(x) ==
                /\ \E t \in OsTokens(PickedTarget.goos) : Contains(lname(x), t)
                /\ \E t \in ArchTokens(PickedTarget.goarch) : Contains(lname(x), t)
                /\ \A suf \in {".sha256", ".sha256sum", ".sig", ".asc", ".txt", ".json"} :
                      ~ EndsWith(lname(x), suf)
        IN
        /\ asset # <<>> => (sat(asset[1]) /\ \E k \in 1..Len(assets) : assets[k] = asset[1])
        /\ asset = <<>> <=> \A k \in 1..Len(assets) : ~ sat(assets[k])

\* C6 witness: nothing is returned for linux/amd64 from a list that holds an
\* asset naming the OS only, one naming the architecture only and a checksum
C6_Witness ==
    /\ pc = "picked"
    /\ asset = <<>>
    /\ PickedTarget.goos = "linux"
    /\ \E k \in 1..Len(assets) : assets[k].name = "bird_linux.tar.gz"
    /\ \E k \in 1..Len(assets) : assets[k].name = "bird_amd64.zip"
    /\ \E k \in 1..Len(assets) : assets[k].name = "bird_linux_arm64.tar.gz.sha256"

\* C10: asset selection respects the operating system of the target: no
\* asset is selected by _pick_asset for two targets with different operating
\* systems
C10_PickRespectsOs ==
    (pc = "picked" /\ asset # <<>>) =>
        \A u \in 1..NTargets :
            targets(environ)[u].goos # PickedTarget.goos =>
                _pick_asset(assets, targets(environ)[u].goos,
                            targets(environ)[u].goarch) # asset

-----------------------------------------------------------------------------
(* Properties of _extract_to_dir and _find_bird_binary, checked under      *)
(* SpecExtract                                                             *)

\* the scratch directory of the call
CallDir == CHOOSE d \in td : TRUE

IsArchiveName(n) ==
    EndsWith(Lower(n), ".tar.gz") \/ EndsWith(Lower(n), ".tgz") \/ EndsWith(Lower(n), ".zip")

\* the member's destination, resolved, is not a descendant of the scratch dir
Escapes(m, dir) ==
    LET dest == Resolve(PathJoin(dir, m.name)) IN
    ~ (Len(dest) > Len(dir) + 1 /\ SubSeq(dest, 1, Len(dir) + 1) = dir \o "/")

\* C2: for a .tar.gz/.tgz or .zip asset, if any member's resolved path lies
\* outside the scratch directory (a sibling directory whose name begins with
\* the scratch directory's name included), extraction raises the
\* unsafe-member error before any member is written, and no file is created
\* outside the scratch directory
C2_EscapingMemberIsRejected ==
    (pc = "extracted" /\ IsArchiveName(asset[1].name) /\ payload.wellformed) =>
        /\ outside = {}
        /\ (\E k \in 1..Len(payload.members) : Escapes(payload.members[k], CallDir)) =>
              /\ StartsWith(raised, "RuntimeError: unsafe")
              /\ tree = {}

FoundTarget == targets(environ)[i]

\* C7: _find_bird_binary returns the result of the first applicable strategy:
\* (1) a regular file named exactly bird.exe (windows) or bird (otherwise);
\* (2) else the only regular file of the tree, whatever its name; (3) else,
\* non-windows only, a regular file whose name starts with "bird"
\* (case-insensitive) and that has the owner-execute bit; (4) else not-found.
\* For windows, no bird.exe and two or more files give not-found.
C7_LocatorStrategyChain ==
    pc = "found" =>
        LET win      == FoundTarget.goos = "windows"
            wanted   == IF win THEN "bird.exe" ELSE "bird"
            files    == { e \in tree : e.kind = "file" }
            named    == { e \in files : BaseName(e.path) = wanted }
            prefixed == { e \in files :
                            e.exec /\ StartsWith(Lower(BaseName(e.path)), "bird") }
        IN
        IF named # {} THEN bird_path # <<>> /\ bird_path[1] \in named
        ELSE IF Cardinality(files) = 1 THEN bird_path # <<>> /\ bird_path[1] \in files
        ELSE IF ~ win /\ prefixed # {} THEN bird_path # <<>> /\ bird_path[1] \in prefixed
        ELSE bird_path = <<>>

\* C7 witness: windows, two files, none named bird.exe, one of them an
\* executable whose name starts with "bird": not found
C7_Witness ==
    /\ pc = "found"
    /\ FoundTarget.goos = "windows"
    /\ bird_path = <<>>
    /\ Cardinality({ e \in tree : e.kind = "file" }) = 2
    /\ \E e \in tree : e.kind = "file" /\ e.exec /\ e.path = "bin/Birdy"

-----------------------------------------------------------------------------
(* Properties of main, checked under Spec *)

StagedPaths == { f.dst : f \in staged }

UnixPaths ==
    { "bundled/bird/bird_darwin_amd64", "bundled/bird/bird_darwin_arm64",
      "bundled/bird/bird_linux_amd64",  "bundled/bird/bird_linux_arm64" }

WindowsPaths ==
    { "bundled/bird/bird_windows_amd64.exe", "bundled/bird/bird_windows_arm64.exe" }

WindowsRequired == targets(environ)[NTargets].required

\* no asset of the release is named as a windows build
NoWindowsAsset ==
    \A k \in 1..Len(assets) : ~ Contains(Lower(GetStr(assets[k], "name")), "windows")

\* C1: main() returns exit code 0 only if every required target (the four
\* darwin/linux targets always, the two windows targets when required) has
\* been staged, exactly once, at its canonical path; for each required target
\* the run stages exactly one binary at that path or ends with exit code 1
C1_ExitZeroOnlyIfRequiredStaged ==
    pc = "exited" =>
        /\ exitCode \in {0, 1}
        /\ exitCode = 0 =>
              \A p \in UnixPaths \cup (IF WindowsRequired THEN WindowsPaths ELSE {}) :
                  Cardinality({ f \in staged : f.dst = p }) = 1

\* C1 witness: exit code 0 with the windows targets required and all six
\* targets staged
C1_Witness ==
    /\ pc = "exited"
    /\ exitCode = 0
    /\ WindowsRequired
    /\ StagedPaths = UnixPaths \cup WindowsPaths

\* C3: with BIRDY_BUNDLE_WINDOWS unset or different from "1", for a release
\* whose four darwin/linux targets are staged and that holds no windows
\* asset, the run (ended by a return, not by an exception) exits 0 and no
\* bird_windows_* file is staged
C3_UnsetWindowsIsBestEffort ==
    ( /\ pc = "exited"
      /\ <<"BIRDY_BUNDLE_WINDOWS", "1">> \notin environ
      /\ raised = ""
      /\ NoWindowsAsset
      /\ UnixPaths \subseteq StagedPaths )
    => (exitCode = 0 /\ StagedPaths \cap WindowsPaths = {})

\* C4: with BIRDY_BUNDLE_WINDOWS=1 and a release that holds assets for the
\* four darwin/linux targets (all staged) but no windows asset, the run
\* (ended by a return, not by an exception) exits 1, the diagnostic printed
\* is the "no matching asset" message naming windows/amd64, and no
\* bird_windows_* file is staged
C4_MissingWindowsAssetIsReported ==
    ( /\ pc = "exited"
      /\ <<"BIRDY_BUNDLE_WINDOWS", "1">> \in environ
      /\ raised = ""
      /\ NoWindowsAsset
      /\ UnixPaths \subseteq StagedPaths )
    => /\ exitCode = 1
       /\ stderr[Len(stderr)] = "vendor_bird: no matching asset for windows/amd64"
       /\ StagedPaths \cap WindowsPaths = {}

\* C8: the scratch directory of a target exists only while that target is
\* between extraction and staging, and is removed when the target's
\* processing finishes by any path (staged, skipped, exit 1 on a binary not
\* found, fatal extraction error): at most one scratch directory exists at
\* any time and none exists when the run has terminated
C8_ScratchIsScoped ==
    /\ Cardinality(td) <= 1
    /\ td # {} => pc \in {"locate", "stage"}
    /\ pc \in {"locate", "stage"} => td # {}
    /\ pc = "exited" => td = {}

\* C8 witness: the run has ended with exit 1 because the binary of a required
\* target was not found after an earlier target was staged; no scratch
\* directory is left
C8_Witness ==
    /\ pc = "exited"
    /\ exitCode = 1
    /\ staged # {}
    /\ stderr # <<>>
    /\ StartsWith(stderr[Len(stderr)], "vendor_bird: could not locate bird binary")
    /\ td = {}

====
